---- MODULE Spec2Model ----
(***************************************************************************)
(* A model of the Commander deck database (DeckList.jsx, DeckDetail.jsx):  *)
(* the list view with its import of a pasted decklist, the detail view     *)
(* with its stat, note and sort handlers, and the localStorage blob        *)
(* 'mtgDecks' both views read and rewrite.                                 *)
(*                                                                         *)
(* Text is a sequence of one-character strings, so that trim, split,       *)
(* toLowerCase and the decklist pattern are computed character by          *)
(* character.  A value that may be null or undefined in the JavaScript is  *)
(* a sequence of length 0 (absent) or 1 (present).                         *)
(***************************************************************************)
EXTENDS Integers, Sequences, FiniteSets, TLC

\* ------------------------------------------------------------------ bounds
\* The clock counts pacing delays; an import may start while clock < MaxClock.
MaxClock == 2
\* The quick-adjust "+" is offered while the stat is below MaxStat, and the
\* edit form takes integers of -1 .. MaxStat.
MaxStat == 1
\* The decklists typed in full are the texts of 1 .. MaxLen characters.
MaxLen == 4
\* The mana costs of the cards sorted are made of 0 .. MaxTokens symbols.
MaxTokens == 3
\* The decks sorted have 1 .. MaxCards cards.
MaxCards == 3

\* ------------------------------------------------------------ absent values
None == << >>
Some(x) == << x >>
IsSome(o) == Len(o) > 0
Get(o) == o[1]

\* --------------------------------------------------------------- text tools
\* String.prototype.trim and the \s of the decklist pattern: white space.
IsSpace(c) == c \in {" ", "\t", "\n"}

IsDigit(c) == c \in {"0", "1", "2", "3", "4", "5", "6", "7", "8", "9"}

DigitVal(c) ==
    CASE c = "0" -> 0 [] c = "1" -> 1 [] c = "2" -> 2 [] c = "3" -> 3
      [] c = "4" -> 4 [] c = "5" -> 5 [] c = "6" -> 6 [] c = "7" -> 7
      [] c = "8" -> 8 [] c = "9" -> 9

\* s.trim(): s without its leading and trailing white space.
trim(s) ==
    LET idx == {i \in 1..Len(s) : ~IsSpace(s[i])}
    IN  IF idx = {} THEN << >>
        ELSE LET lo == CHOOSE i \in idx : \A j \in idx : i <= j
                 hi == CHOOSE i \in idx : \A j \in idx : i >= j
             IN  SubSeq(s, lo, hi)

\* A weaker blank test, without the trim: white space counts as an entry.
IsEmpty(s) == s = << >>

\* !s.trim() : the blank test of the import form's fields.
IsBlank(s) == trim(s) = << >>

UpperChars == <<"A", "B", "C", "D", "E", "F", "G", "H", "I", "J", "K", "L", "M",
                "N", "O", "P", "Q", "R", "S", "T", "U", "V", "W", "X", "Y", "Z">>
LowerChars == <<"a", "b", "c", "d", "e", "f", "g", "h", "i", "j", "k", "l", "m",
                "n", "o", "p", "q", "r", "s", "t", "u", "v", "w", "x", "y", "z">>

LowerChar(c) ==
    IF \E i \in DOMAIN UpperChars : UpperChars[i] = c
    THEN LowerChars[CHOOSE i \in DOMAIN UpperChars : UpperChars[i] = c]
    ELSE c

\* s.toLowerCase()
toLowerCase(s) == [i \in 1..Len(s) |-> LowerChar(s[i])]

\* s.startsWith(p)
startsWith(s, p) == Len(s) >= Len(p) /\ SubSeq(s, 1, Len(p)) = p

\* s.includes(p)
includes(s, p) ==
    \E i \in 1..(Len(s) + 1) :
        i + Len(p) - 1 <= Len(s) /\ SubSeq(s, i, i + Len(p) - 1) = p

\* text.split('\n')
RECURSIVE split(_)
split(text) ==
    LET nl == {i \in 1..Len(text) : text[i] = "\n"}
    IN  IF nl = {} THEN << text >>
        ELSE LET k == CHOOSE i \in nl : \A j \in nl : i <= j
             IN  << SubSeq(text, 1, k - 1) >> \o split(SubSeq(text, k + 1, Len(text)))

\* parseInt of a run of decimal digits.
RECURSIVE parseInt(_)
parseInt(ds) ==
    IF ds = << >> THEN 0
    ELSE 10 * parseInt(SubSeq(ds, 1, Len(ds) - 1)) + DigitVal(ds[Len(ds)])

Max(a, b) == IF a >= b THEN a ELSE b

\* ------------------------------------------------------------ parseDecklist
\* The words that make parseDecklist skip a line as a section header.
WordCommander == <<"c", "o", "m", "m", "a", "n", "d", "e", "r">>
WordSideboard == <<"s", "i", "d", "e", "b", "o", "a", "r", "d">>

\* The number of white-space characters (\s*), of digits (\d+), from position
\* from on, up to the first character of another kind.
SpaceRun(line, from) ==
    LET stops == {i \in from..Len(line) : ~IsSpace(line[i])}
    IN  IF stops = {} THEN Max(0, Len(line) - from + 1)
        ELSE (CHOOSE i \in stops : \A j \in stops : i <= j) - from

DigitRun(line, from) ==
    LET stops == {i \in from..Len(line) : ~IsDigit(line[i])}
    IN  IF stops = {} THEN Max(0, Len(line) - from + 1)
        ELSE (CHOOSE i \in stops : \A j \in stops : i <= j) - from

\* One if the character at position at is c, else zero.
OneIf(line, at, c) == IF at <= Len(line) /\ line[at] = c THEN 1 ELSE 0

\* The matches of /^(\d+)\s*x?\s*-?\s*(.+)$/ on a line, each as the lengths
\* <<digits, spaces, x, spaces, dash, spaces>> its parts take; (.+) is the
\* non-empty rest of the line.
LineMatches(line) ==
    UNION { UNION { UNION { UNION { UNION {
        { <<d, a, x, b, h, c>> : c \in { k \in 0..SpaceRun(line, d + a + x + b + h + 1) :
                                           d + a + x + b + h + k < Len(line) } }
        : h \in 0..OneIf(line, d + a + x + b + 1, "-") }
        : b \in 0..SpaceRun(line, d + a + x + 1) }
        : x \in 0..OneIf(line, d + a + 1, "x") }
        : a \in 0..SpaceRun(line, d + 1) }
        : d \in 1..DigitRun(line, 1) }

\* The order in which the backtracking matcher tries them: every quantifier
\* of the pattern is greedy, so the longer choice of an earlier part first.
TriedBefore(m1, m2) ==
    \E k \in 1..6 : m1[k] > m2[k] /\ \A j \in 1..(k - 1) : m1[j] = m2[j]

\* line.match(...): absent, or the groups [1] (digits) and [2] (the rest).
LineMatch(line) ==
    LET ms == LineMatches(line)
    IN  IF ms = {} THEN None
        ELSE LET m == CHOOSE m1 \in ms : \A m2 \in ms \ {m1} : TriedBefore(m1, m2)
                 used == m[1] + m[2] + m[3] + m[4] + m[5] + m[6]
             IN  Some([digits |-> SubSeq(line, 1, m[1]),
                       rest   |-> SubSeq(line, used + 1, Len(line))])

\* The loop body's tests on one trimmed, non-empty line.
IsSkippedLine(line) ==
    \/ startsWith(line, <<"/", "/">>)
    \/ startsWith(line, <<"#">>)
    \/ includes(toLowerCase(line), WordCommander)
    \/ includes(toLowerCase(line), WordSideboard)

IsCardLine(line) ==
    /\ ~IsSkippedLine(line)
    /\ IsSome(LineMatch(line))
    /\ trim(Get(LineMatch(line)).rest) # << >>
    /\ parseInt(Get(LineMatch(line)).digits) > 0

CardOfLine(line) ==
    [name     |-> trim(Get(LineMatch(line)).rest),
     quantity |-> parseInt(Get(LineMatch(line)).digits)]

parseDecklist(text) ==
    LET trimmed == [i \in 1..Len(split(text)) |-> trim(split(text)[i])]
        lines   == SelectSeq(trimmed, LAMBDA l : Len(l) > 0)
        cards   == SelectSeq(lines, IsCardLine)
    IN  [i \in 1..Len(cards) |-> CardOfLine(cards[i])]

\* ------------------------------------------------------- what the user types
TextBlank   == <<" ">>
TextNoCards == <<"a">>
TextOne     == <<"1", " ", "a">>
TextTwo     == <<"1", " ", "a", "\n", "2", "x", " ", "a">>
ImportTexts == {TextBlank, TextNoCards, TextOne, TextTwo}
DeckNames == {<<" ">>, <<"D", " ">>}
CommanderNames == {<< >>, <<"A">>, <<"c", " ">>}
NoteTexts == {<< >>, <<"n">>}
StatInputs == (-1)..MaxStat
StatNames == {"wins", "losses", "mulligans"}
SortKeys == {"name", "mana", "type"}

\* ------------------------------------------- what the card service answers
\* A card record of the service: image_uris.normal, card_faces (each face with
\* its image_uris.normal and cmc), mana_cost, cmc, type_line, rarity.
CardPlain ==
    [image_uris_normal |-> Some("img"),
     card_faces        |-> << >>,
     mana_cost         |-> Some(<<"{", "1", "}">>),
     cmc               |-> Some(1),
     type_line         |-> Some(<<"A">>),
     rarity            |-> Some("common")]
\* A two-faced card: no image of its own, a converted mana cost of 0.
CardFaces ==
    [image_uris_normal |-> None,
     card_faces        |-> << [image_uris_normal |-> Some("face"), cmc |-> Some(2)] >>,
     mana_cost         |-> None,
     cmc               |-> Some(0),
     type_line         |-> Some(<<"L">>),
     rarity            |-> None]
\* The bodies an exact-name request answers with, and the data arrays a search
\* answers with.
ExactRecords == {CardPlain}
SearchLists == {<< >>, <<CardFaces, CardPlain>>}

\* -------------------------------------------------------------------- state
VARIABLES
    storage,          \* localStorage 'mtgDecks': [kind, decks]
    clock,            \* Date.now(), in pacing delays
    route,            \* "list" (/) or "detail" (/deck/:id)
    routeId,          \* the :id of the detail route
    alert,            \* the last alert shown
    \* DeckList's state
    decks, showImportModal, decklistText, deckName, commanderName, importing,
    \* the running handleImport: where it is, what its closure holds, its locals
    pc, phase, closureDecks, parsedCards, idx, decklist, commanderData, log,
    \* DeckDetail's state
    deck, showStatsModal, statsInput, notes, sortBy

listVars == <<decks, showImportModal, decklistText, deckName, commanderName, importing>>
formVars == <<decklistText, deckName, commanderName>>
taskVars == <<pc, phase, closureDecks, parsedCards, idx, decklist, commanderData, log>>
detailVars == <<deck, showStatsModal, statsInput, notes, sortBy>>
vars == <<storage, clock, route, routeId, alert, listVars, taskVars, detailVars>>

\* localStorage.getItem('mtgDecks') is null, or the JSON of a deck array.
NoBlob == [kind |-> "absent", decks |-> << >>]
JSONstringify(ds) == [kind |-> "json", decks |-> ds]
\* if (savedDecks): a blob is there
HasBlob(blob) == blob.kind # "absent"
JSONparse(blob) == blob.decks
\* An item that is there and is not JSON: JSON.parse throws a SyntaxError.
Malformed == [kind |-> "malformed", decks |-> << >>]
ParseThrows(blob) == blob.kind = "malformed"

\* ----------------------------------------------------- building a new deck
\* a || b on strings: a when it is there and not empty.
Truthy(o) == IsSome(o) /\ Get(o) # ""
\* the same on a text kept as its characters
TruthyText(o) == IsSome(o) /\ Len(Get(o)) > 0

\* data?.image_uris?.normal || data?.card_faces?.[0]?.image_uris?.normal || null
ImageOf(data) ==
    IF ~IsSome(data) THEN None
    ELSE LET d == Get(data)
         IN  IF Truthy(d.image_uris_normal) THEN d.image_uris_normal
             ELSE IF Len(d.card_faces) > 0 /\ Truthy(d.card_faces[1].image_uris_normal)
                  THEN d.card_faces[1].image_uris_normal
                  ELSE None

\* A cmc taken with || instead of ??: a cmc of 0 counts as none.
CmcOfUnlessZero(data) ==
    IF ~IsSome(data) THEN None
    ELSE LET d == Get(data)
         IN  IF IsSome(d.cmc) /\ Get(d.cmc) # 0 THEN d.cmc
             ELSE IF Len(d.card_faces) > 0 THEN d.card_faces[1].cmc
                  ELSE None

\* data?.cmc ?? (data?.card_faces?.[0]?.cmc ?? null)
CmcOf(data) ==
    IF ~IsSome(data) THEN None
    ELSE LET d == Get(data)
         IN  IF IsSome(d.cmc) THEN d.cmc
             ELSE IF Len(d.card_faces) > 0 THEN d.card_faces[1].cmc
                  ELSE None

\* data?.mana_cost || '', data?.type_line || ''
TextOf(data, field) ==
    IF IsSome(data) /\ TruthyText(Get(data)[field]) THEN Get(Get(data)[field]) ELSE << >>

\* data?.rarity || ''
RarityOf(data) ==
    IF IsSome(data) /\ Truthy(Get(data).rarity) THEN Get(Get(data).rarity) ELSE ""

\* The entry pushed for one parsed line and its lookup result.
CardEntry(card, data) ==
    [name     |-> card.name,
     quantity |-> card.quantity,
     imageUrl |-> ImageOf(data),
     manaCost |-> TextOf(data, "mana_cost"),
     cmc      |-> CmcOf(data),
     type     |-> TextOf(data, "type_line"),
     rarity   |-> RarityOf(data)]

\* commanderName.trim() || parsedCards[0]?.name
CommanderToFind(cmdName, cards) ==
    IF ~IsBlank(cmdName) THEN trim(cmdName) ELSE cards[1].name

\* A commander test that takes the first result, whatever the line's name.
IsFirstResult(card, cmdName, cards, cmdData) == ~IsSome(cmdData)

\* This line's result is the commander's: its name is the target's, whatever
\* the letter case, and no commander data is held yet.
IsCommanderLine(card, cmdName, cards, cmdData) ==
    /\ toLowerCase(card.name) = toLowerCase(CommanderToFind(cmdName, cards))
    /\ ~IsSome(cmdData)

\* A commander only from commander data, a name alone making none.
CommanderOfDataOnly(cmdName, cards, cmdData) ==
    IF IsSome(cmdData)
    THEN Some([name |-> CommanderToFind(cmdName, cards), imageUrl |-> ImageOf(cmdData)])
    ELSE None

\* newDeck.commander
CommanderOf(cmdName, cards, cmdData) ==
    IF IsSome(cmdData)
    THEN Some([name |-> CommanderToFind(cmdName, cards), imageUrl |-> ImageOf(cmdData)])
    ELSE IF ~IsBlank(cmdName)
         THEN Some([name |-> trim(cmdName), imageUrl |-> None])
         ELSE None

ZeroStats == [wins |-> 0, losses |-> 0, mulligans |-> 0, totalGames |-> 0]

\* A deck whose id does not come from the clock.
newDeckSameId(now, name, cmdName, cards, entries, cmdData) ==
    [id        |-> 0,
     name      |-> trim(name),
     commander |-> CommanderOf(cmdName, cards, cmdData),
     decklist  |-> entries,
     stats     |-> ZeroStats,
     notes     |-> << >>,
     createdAt |-> now]

\* Date.now().toString(): the decimal text of the clock, one text per value, so
\* the id is kept as the clock value itself.
newDeck(now, name, cmdName, cards, entries, cmdData) ==
    [id        |-> now,
     name      |-> trim(name),
     commander |-> CommanderOf(cmdName, cards, cmdData),
     decklist  |-> entries,
     stats     |-> ZeroStats,
     notes     |-> << >>,
     createdAt |-> now]

\* ---------------------------------------------------------------- DeckList
\* DeckList's useState defaults, and no import running.
ListInitial ==
    /\ decks = << >> /\ showImportModal = FALSE /\ decklistText = << >>
    /\ deckName = << >> /\ commanderName = << >> /\ importing = FALSE
TaskIdle ==
    /\ pc = "idle" /\ phase = "line" /\ closureDecks = << >> /\ parsedCards = << >>
    /\ idx = 0 /\ decklist = << >> /\ commanderData = None /\ log = << >>
\* DeckDetail's useState defaults.
DetailInitial ==
    /\ deck = None /\ showStatsModal = FALSE /\ statsInput = [wins |-> 0, losses |-> 0, mulligans |-> 0]
    /\ notes = << >> /\ sortBy = "name"

\* A DeckList that mounts without reading the blob.
LoadedDecksNothing(blob) == << >>

\* DeckList's effect on mount: the decks of the blob, when there is one.
LoadedDecks(blob) == IF HasBlob(blob) THEN JSONparse(blob) ELSE << >>

\* DeckDetail's effect on mount: the deck of the route's id, its stats in the
\* edit form and its notes.
FoundDeck(blob, id) ==
    IF HasBlob(blob) /\ \E i \in 1..Len(JSONparse(blob)) : JSONparse(blob)[i].id = id
    THEN LET ds == JSONparse(blob)
             i  == CHOOSE j \in 1..Len(ds) : ds[j].id = id /\ \A k \in 1..(j - 1) : ds[k].id # id
         IN  Some(ds[i])
    ELSE None

DetailMounted(blob, id) ==
    /\ deck' = FoundDeck(blob, id)
    /\ showStatsModal' = FALSE
    /\ sortBy' = "name"
    /\ IF IsSome(FoundDeck(blob, id))
       THEN LET d == Get(FoundDeck(blob, id))
            IN  /\ statsInput' = [wins |-> d.stats.wins, losses |-> d.stats.losses,
                                  mulligans |-> d.stats.mulligans]
                /\ notes' = d.notes
       ELSE /\ statsInput' = [wins |-> 0, losses |-> 0, mulligans |-> 0]
            /\ notes' = << >>

Init ==
    /\ storage = NoBlob
    /\ clock = 0
    /\ route = "list" /\ routeId = 0
    /\ alert = "none"
    /\ ListInitial /\ TaskIdle /\ DetailInitial

\* A view that is not on screen holds its useState defaults.
ListReset ==
    /\ decks' = << >> /\ showImportModal' = FALSE /\ decklistText' = << >>
    /\ deckName' = << >> /\ commanderName' = << >> /\ importing' = FALSE
TaskReset ==
    /\ pc' = "idle" /\ phase' = "line" /\ closureDecks' = << >> /\ parsedCards' = << >>
    /\ idx' = 0 /\ decklist' = << >> /\ commanderData' = None /\ log' = << >>
DetailReset ==
    /\ deck' = None /\ showStatsModal' = FALSE
    /\ statsInput' = [wins |-> 0, losses |-> 0, mulligans |-> 0]
    /\ notes' = << >> /\ sortBy' = "name"

\* The "+ Import Decklist" button.
OpenImportModal ==
    /\ route = "list" /\ ~showImportModal
    /\ clock < MaxClock
    /\ showImportModal' = TRUE
    /\ UNCHANGED <<storage, clock, route, routeId, alert, decks, formVars, importing,
                   taskVars, detailVars>>

\* The three fields of the import form; each is disabled while importing.
SetDecklistText(in) ==
    /\ route = "list" /\ showImportModal /\ ~importing
    /\ \E t \in in.texts : decklistText' = t
    /\ UNCHANGED <<storage, clock, route, routeId, alert, decks, showImportModal,
                   deckName, commanderName, importing, taskVars, detailVars>>

SetDeckName(in) ==
    /\ route = "list" /\ showImportModal /\ ~importing
    /\ \E n \in in.names : deckName' = n
    /\ UNCHANGED <<storage, clock, route, routeId, alert, decks, showImportModal,
                   decklistText, commanderName, importing, taskVars, detailVars>>

SetCommanderName(in) ==
    /\ route = "list" /\ showImportModal /\ ~importing
    /\ \E c \in in.commanders : commanderName' = c
    /\ UNCHANGED <<storage, clock, route, routeId, alert, decks, showImportModal,
                   decklistText, deckName, importing, taskVars, detailVars>>

\* The form's Cancel button, disabled while importing.
CancelImport ==
    /\ route = "list" /\ showImportModal /\ ~importing
    /\ showImportModal' = FALSE
    /\ decklistText' = << >> /\ deckName' = << >> /\ commanderName' = << >>
    /\ UNCHANGED <<storage, clock, route, routeId, alert, decks, importing,
                   taskVars, detailVars>>

\* saveDecks(newDecks)
saveDecks(newDecks) ==
    /\ decks' = newDecks
    /\ storage' = JSONstringify(newDecks)

\* A filter that drops the deck and every deck imported after it.
WithoutDeckAndLater(ds, deckId) == SelectSeq(ds, LAMBDA d : d.id < deckId)

\* decks.filter(deck => deck.id !== deckId)
WithoutDeck(ds, deckId) == SelectSeq(ds, LAMBDA d : d.id # deckId)

\* handleDeleteDeck(deckId), window.confirm answered yes or no.
HandleDeleteDeckOf(deckId, confirmed) ==
    /\ IF confirmed
       THEN saveDecks(WithoutDeck(decks, deckId))
       ELSE UNCHANGED <<decks, storage>>
    /\ UNCHANGED <<clock, route, routeId, alert, showImportModal, formVars, importing,
                   taskVars, detailVars>>

\* The Delete button of a deck shown in the grid; the import form, when open,
\* lies over the grid.
HandleDeleteDeck ==
    /\ route = "list" /\ ~showImportModal
    /\ \E i \in 1..Len(decks), confirmed \in BOOLEAN :
          HandleDeleteDeckOf(decks[i].id, confirmed)

\* The Delete button of a deck in the grid under the import form, pressed from
\* the keyboard: the form's overlay takes the pointer, not the focus, and the
\* button has no disabled attribute.
DeleteUnderForm ==
    /\ route = "list" /\ showImportModal
    /\ \E i \in 1..Len(decks), confirmed \in BOOLEAN :
          HandleDeleteDeckOf(decks[i].id, confirmed)

\* A click on a deck of the grid: navigate(`/deck/${deck.id}`); DeckList leaves
\* the screen, DeckDetail mounts and runs its effect.
OpenDeck ==
    /\ route = "list" /\ ~showImportModal
    /\ \E i \in 1..Len(decks) :
        /\ route' = "detail"
        /\ routeId' = decks[i].id
        /\ DetailMounted(storage, decks[i].id)
    /\ ListReset /\ TaskReset
    /\ alert' = "none"
    /\ UNCHANGED <<storage, clock>>

\* "Back to Decks": navigate('/'); DeckList mounts and runs its effect.
BackToDecks ==
    /\ route = "detail"
    /\ route' = "list" /\ routeId' = 0
    /\ decks' = LoadedDecks(storage)
    /\ showImportModal' = FALSE /\ decklistText' = << >> /\ deckName' = << >>
    /\ commanderName' = << >> /\ importing' = FALSE
    /\ TaskReset /\ DetailReset
    /\ alert' = "none"
    /\ UNCHANGED <<storage, clock>>

\* ------------------------------------------------------------ handleImport
\* What the log of an import records: each request sent ("exact" opens a call
\* of fetchScryfallCard, "search" is its second request), each console.error
\* of fetchScryfallCard's catch block ("error"), each return of
\* fetchScryfallCard and each pacing delay that has elapsed.  line is the
\* parsed line looked up, 0 for the standalone commander lookup.
Event(ev, line, found) == [ev |-> ev, line |-> line, found |-> found]

LookupLine == IF phase = "line" THEN idx ELSE 0

\* Steps 4 to 7 of handleImport, run in one go once the lookups are over: the
\* new deck, saveDecks([...decks, newDeck]) with the decks of the handler's
\* closure, the form closed and cleared, navigate to the new deck's page (where
\* DeckList leaves the screen and DeckDetail mounts), and the finally block.
Commit(now, cmdData, lg, entries) ==
    LET nd      == newDeck(now, deckName, commanderName, parsedCards, entries, cmdData)
        updated == Append(closureDecks, nd)
    IN  /\ storage' = JSONstringify(updated)
        /\ ListReset
        /\ route' = "detail" /\ routeId' = nd.id
        /\ DetailMounted(JSONstringify(updated), nd.id)
        /\ pc' = "done" /\ commanderData' = cmdData /\ log' = lg /\ decklist' = entries
        /\ clock' = now
        /\ alert' = "none"
        /\ UNCHANGED <<phase, closureDecks, parsedCards, idx>>

\* An import that never looks the commander up on its own.
NeverCommanderLookup(cmdName, cmdData) == FALSE

\* if (commanderName.trim() && !commanderData)
NeedsCommanderLookup(cmdName, cmdData) == ~IsBlank(cmdName) /\ ~IsSome(cmdData)

\* The for loop goes on after a pacing delay: the lookup of the next line, or
\* past the last line the standalone commander lookup (step 3), or the commit.
Proceed(now, lg, entries, cmdData) ==
    IF idx < Len(parsedCards)
    THEN /\ idx' = idx + 1
         /\ pc' = "exact"
         /\ log' = Append(lg, Event("exact", idx + 1, FALSE))
         /\ clock' = now /\ decklist' = entries /\ commanderData' = cmdData
         /\ UNCHANGED <<storage, route, routeId, alert, listVars, phase, closureDecks,
                        parsedCards, detailVars>>
    ELSE IF NeedsCommanderLookup(commanderName, cmdData)
    THEN /\ phase' = "commander"
         /\ pc' = "exact"
         /\ log' = Append(lg, Event("exact", 0, FALSE))
         /\ clock' = now /\ decklist' = entries /\ commanderData' = cmdData
         /\ UNCHANGED <<storage, route, routeId, alert, listVars, closureDecks,
                        parsedCards, idx, detailVars>>
    ELSE Commit(now, cmdData, lg, entries)

\* The loop body after its lookup: the commander test, the decklist as it is
\* after the push, and the pacing delay is awaited.
PushAndDelay(result, lg, entries) ==
    /\ commanderData' =
          IF IsCommanderLine(parsedCards[idx], commanderName, parsedCards, commanderData)
          THEN result ELSE commanderData
    /\ decklist' = entries
    /\ log' = Append(lg, Event("return", idx, IsSome(result)))
    /\ pc' = "delay"
    /\ UNCHANGED <<storage, clock, route, routeId, alert, listVars, phase, closureDecks,
                   parsedCards, idx, detailVars>>

\* A loop body that waits only after a lookup that found the card.
LineLookedUpUnpaced(result, lg) ==
    IF IsSome(result)
    THEN PushAndDelay(result, lg, Append(decklist, CardEntry(parsedCards[idx], result)))
    ELSE Proceed(clock, Append(lg, Event("return", idx, FALSE)),
                 Append(decklist, CardEntry(parsedCards[idx], result)), commanderData)

\* A loop body that adds a line's quantity to an earlier entry of the same name.
LineLookedUpMerging(result, lg) ==
    LET card == parsedCards[idx]
        same == {i \in 1..Len(decklist) : decklist[i].name = card.name}
    IN  IF same = {}
        THEN PushAndDelay(result, lg, Append(decklist, CardEntry(card, result)))
        ELSE PushAndDelay(result, lg,
                 [i \in 1..Len(decklist) |->
                     IF i \in same
                     THEN [decklist[i] EXCEPT !.quantity = @ + card.quantity]
                     ELSE decklist[i]])

\* const scryfallData = await fetchScryfallCard(card.name) has returned for the
\* line idx.
LineLookedUp(result, lg) ==
    PushAndDelay(result, lg, Append(decklist, CardEntry(parsedCards[idx], result)))

\* commanderData = await fetchScryfallCard(commanderName.trim()) has returned.
CommanderLookedUp(result, lg) ==
    Commit(clock, result, Append(lg, Event("return", 0, IsSome(result))), decklist)

LookedUp(result, lg) ==
    IF phase = "line" THEN LineLookedUp(result, lg) ELSE CommanderLookedUp(result, lg)

\* An alert and an early return of handleImport.
Reject(message) ==
    /\ alert' = message
    /\ UNCHANGED <<storage, clock, route, routeId, listVars, taskVars, detailVars>>

\* The Import button: the two field checks, the parse, and for a decklist with
\* cards the handler runs up to its first await, the exact-name request for the
\* first line.  The button is disabled while importing; the handler checks the
\* fields itself, so it is taken with any field values.
HandleImport ==
    /\ route = "list" /\ showImportModal /\ ~importing
    /\ clock < MaxClock
    /\ IF IsBlank(decklistText) THEN Reject("Please paste a decklist")
       ELSE IF IsBlank(deckName) THEN Reject("Please enter a deck name")
       ELSE IF Len(parseDecklist(decklistText)) = 0
       THEN Reject("No valid cards found in decklist")
       ELSE /\ importing' = TRUE
            /\ closureDecks' = decks
            /\ parsedCards' = parseDecklist(decklistText)
            /\ decklist' = << >>
            /\ commanderData' = None
            /\ idx' = 1 /\ phase' = "line"
            /\ pc' = "exact"
            /\ log' = << Event("exact", 1, FALSE) >>
            /\ alert' = "none"
            /\ UNCHANGED <<storage, clock, route, routeId, decks, showImportModal,
                           formVars, detailVars>>

\* fetchScryfallCard goes on to its second request.
SendSearch ==
    /\ pc' = "search"
    /\ log' = Append(log, Event("search", LookupLine, FALSE))
    /\ UNCHANGED <<storage, clock, route, routeId, alert, listVars, phase, closureDecks,
                   parsedCards, idx, decklist, commanderData, detailVars>>

\* A catch block with no finally block behind it.
FailedStillImporting(lg) ==
    /\ alert' = "Failed to import deck"
    /\ pc' = "failed"
    /\ closureDecks' = << >> /\ parsedCards' = << >> /\ decklist' = << >>
    /\ commanderData' = None /\ log' = lg
    /\ UNCHANGED <<storage, clock, route, routeId, listVars, phase, idx, detailVars>>

\* The catch block of handleImport and its finally block.  Of the handler's
\* locals only the place of the failure is kept.
Failed(lg) ==
    /\ alert' = "Failed to import deck"
    /\ importing' = FALSE
    /\ pc' = "failed"
    /\ closureDecks' = << >> /\ parsedCards' = << >> /\ decklist' = << >>
    /\ commanderData' = None /\ log' = lg
    /\ UNCHANGED <<storage, clock, route, routeId, decks, showImportModal, formVars,
                   phase, idx, detailVars>>

\* An exact-name request whose exception is not caught by fetchScryfallCard.
ExactResponseRethrows(in) ==
    /\ pc = "exact"
    /\ \/ \E r \in in.exact : LookedUp(Some(r), log)
       \/ Failed(Append(log, Event("error", LookupLine, FALSE)))
       \/ SendSearch

\* The exact-name request of fetchScryfallCard is answered.
ExactResponse(in) ==
    /\ pc = "exact"
    /\ \/ \* response.ok: the body is the card
          \E r \in in.exact : LookedUp(Some(r), log)
       \/ \* fetch or response.json() threw: caught, logged, null
          LookedUp(None, Append(log, Event("error", LookupLine, FALSE)))
       \/ \* !response.ok
          SendSearch

\* The last of the search results instead of the first.
LastResult(data) == IF Len(data) > 0 THEN Some(data[Len(data)]) ELSE None

\* searchData.data[0] when searchData.data is there and not empty
FirstResult(data) == IF Len(data) > 0 THEN Some(data[1]) ELSE None

\* The search request of fetchScryfallCard is answered.
SearchResponse(in) ==
    /\ pc = "search"
    /\ \/ \* response.ok: the first result, if any
          \E data \in in.search : LookedUp(FirstResult(data), log)
       \/ \* !response.ok: null
          LookedUp(None, log)
       \/ \* fetch or response.json() threw: caught, logged, null
          LookedUp(None, Append(log, Event("error", LookupLine, FALSE)))

\* await new Promise(resolve => setTimeout(resolve, 100)) is over.
DelayElapsed ==
    /\ pc = "delay"
    /\ Proceed(clock + 1, Append(log, Event("delay", idx, FALSE)), decklist, commanderData)

\* A catch block that saves the deck as far as it was assembled.
ImportThrowsSavingPartial ==
    /\ pc \in {"exact", "search", "delay"}
    /\ alert' = "Failed to import deck"
    /\ importing' = FALSE
    /\ pc' = "failed"
    /\ saveDecks(Append(closureDecks,
           newDeck(clock, deckName, commanderName, parsedCards, decklist, commanderData)))
    /\ closureDecks' = << >> /\ parsedCards' = << >> /\ decklist' = << >>
    /\ commanderData' = None /\ log' = << >>
    /\ UNCHANGED <<clock, route, routeId, showImportModal, formVars, phase, idx,
                   detailVars>>

\* An exception reaches the try block of handleImport at one of its awaits.
ImportThrows ==
    /\ pc \in {"exact", "search", "delay"}
    /\ Failed(<< >>)

\* -------------------------------------------------------------- DeckDetail
\* A replace without the test of the id.
ReplacedAll(ds, id, updatedDeck) == [i \in 1..Len(ds) |-> updatedDeck]

\* saveDeck(updatedDeck): the blob with the deck of the route's id replaced,
\* and the deck on screen; nothing at all without a blob.
ReplacedDecks(ds, id, updatedDeck) ==
    [i \in 1..Len(ds) |-> IF ds[i].id = id THEN updatedDeck ELSE ds[i]]

saveDeck(updatedDeck) ==
    IF HasBlob(storage)
    THEN /\ storage' = JSONstringify(ReplacedDecks(JSONparse(storage), routeId, updatedDeck))
         /\ deck' = Some(updatedDeck)
    ELSE UNCHANGED <<storage, deck>>

\* Stats whose totalGames follows every button, that of mulligans too.
QuickStatsCountingAll(stats, stat, delta) ==
    [stats EXCEPT
       ![stat] = Max(0, stats[stat] + delta),
       !.totalGames = Max(0, stats.totalGames + delta)]

\* The updatedStats of handleQuickStatUpdate(stat, delta).
QuickStats(stats, stat, delta) ==
    [stats EXCEPT
       ![stat] = Max(0, stats[stat] + delta),
       !.totalGames =
          IF stat = "wins" \/ stat = "losses"
          THEN Max(0, stats.wins + (IF stat = "wins" THEN delta ELSE 0)
                      + stats.losses + (IF stat = "losses" THEN delta ELSE 0))
          ELSE stats.totalGames]

\* handleQuickStatUpdate(stat, delta) from one of the + and - buttons of the
\* three stats; the edit form, when open, lies over them.
QuickStatUpdate(stat, delta) ==
    /\ route = "detail" /\ IsSome(deck) /\ ~showStatsModal
    /\ delta = 1 => Get(deck).stats[stat] < MaxStat
    /\ saveDeck([Get(deck) EXCEPT !.stats = QuickStats(Get(deck).stats, stat, delta)])
    /\ UNCHANGED <<clock, route, routeId, alert, listVars, taskVars, showStatsModal,
                   statsInput, notes, sortBy>>

HandleQuickStatUpdate ==
    \E stat \in StatNames, delta \in {1, -1} : QuickStatUpdate(stat, delta)

\* The "Edit Stats" button.
OpenStatsModal ==
    /\ route = "detail" /\ IsSome(deck) /\ ~showStatsModal
    /\ showStatsModal' = TRUE
    /\ UNCHANGED <<storage, clock, route, routeId, alert, listVars, taskVars, deck,
                   statsInput, notes, sortBy>>

\* A number field of the edit form: parseInt(e.target.value) || 0.
SetStatsInput ==
    /\ route = "detail" /\ showStatsModal
    /\ \E stat \in StatNames, v \in StatInputs : statsInput' = [statsInput EXCEPT ![stat] = v]
    /\ UNCHANGED <<storage, clock, route, routeId, alert, listVars, taskVars, deck,
                   showStatsModal, notes, sortBy>>

\* The form's Cancel button.
CancelStatsModal ==
    /\ route = "detail" /\ showStatsModal
    /\ showStatsModal' = FALSE
    /\ UNCHANGED <<storage, clock, route, routeId, alert, listVars, taskVars, deck,
                   statsInput, notes, sortBy>>

\* The stats handleUpdateStats stores: the form's numbers and their total.
FormStats(input) ==
    [wins |-> input.wins, losses |-> input.losses, mulligans |-> input.mulligans,
     totalGames |-> input.wins + input.losses]

\* The form's Save button.
HandleUpdateStats ==
    /\ route = "detail" /\ showStatsModal
    /\ saveDeck([Get(deck) EXCEPT !.stats = FormStats(statsInput), !.notes = notes])
    /\ showStatsModal' = FALSE
    /\ UNCHANGED <<clock, route, routeId, alert, listVars, taskVars, statsInput, notes,
                   sortBy>>

\* The notes field: onChange, and onBlur which saves.
SetNotes ==
    /\ route = "detail" /\ IsSome(deck) /\ ~showStatsModal
    /\ \E n \in NoteTexts : notes' = n
    /\ UNCHANGED <<storage, clock, route, routeId, alert, listVars, taskVars, deck,
                   showStatsModal, statsInput, sortBy>>

NotesBlur ==
    /\ route = "detail" /\ IsSome(deck) /\ ~showStatsModal
    /\ saveDeck([Get(deck) EXCEPT !.notes = notes])
    /\ UNCHANGED <<clock, route, routeId, alert, listVars, taskVars, showStatsModal,
                   statsInput, notes, sortBy>>

\* manaCost.match(/\{(\d+)\}/g): where the matches begin, an opening brace with
\* digits and the closing brace right after them.
ManaMatches(cost) ==
    {i \in 1..Len(cost) :
        /\ cost[i] = "{"
        /\ DigitRun(cost, i + 1) >= 1
        /\ i + DigitRun(cost, i + 1) < Len(cost)
        /\ cost[i + 1 + DigitRun(cost, i + 1)] = "}"}

\* parseInt(match.replace(/[{}]/g, ''))
ManaMatchValue(cost, i) == parseInt(SubSeq(cost, i + 1, i + DigitRun(cost, i + 1)))

\* matches.reduce((sum, match) => sum + num, 0)
RECURSIVE reduce(_, _)
reduce(cost, starts) ==
    IF starts = {} THEN 0
    ELSE LET i == CHOOSE j \in starts : TRUE
         IN  ManaMatchValue(cost, i) + reduce(cost, starts \ {i})

\* A mana value that counts one for each symbol without a number, too.
getManaValueWithPips(card) ==
    IF IsSome(card.cmc) THEN Get(card.cmc)
    ELSE reduce(card.manaCost, ManaMatches(card.manaCost))
         + Cardinality({i \in 1..Len(card.manaCost) : card.manaCost[i] = "{"})
         - Cardinality(ManaMatches(card.manaCost))

\* getManaValue(card)
getManaValue(card) ==
    IF IsSome(card.cmc) THEN Get(card.cmc)
    ELSE IF card.manaCost = << >> THEN 0
    ELSE IF ManaMatches(card.manaCost) = {} THEN 0
    ELSE reduce(card.manaCost, ManaMatches(card.manaCost))

\* The dash of a type line, U+2014, as one character.
EmDash == "--"

\* The characters in the order of the collation: white space, punctuation,
\* digits, letters; a letter's two cases have one place.
Collation == <<" ", "-", EmDash, "0", "1", "2", "3">> \o LowerChars
Places ==
    [c \in {Collation[i] : i \in DOMAIN Collation} \cup {UpperChars[i] : i \in DOMAIN UpperChars} |->
        CHOOSE i \in DOMAIN Collation : Collation[i] = LowerChar(c)]
Weight(c) == IF c \in DOMAIN Places THEN Places[c] ELSE 0

\* The first difference of place decides, the shorter text first.
RECURSIVE ComparePlaces(_, _)
ComparePlaces(a, b) ==
    IF a = << >> THEN (IF b = << >> THEN 0 ELSE -1)
    ELSE IF b = << >> THEN 1
    ELSE IF Weight(a[1]) < Weight(b[1]) THEN -1
    ELSE IF Weight(a[1]) > Weight(b[1]) THEN 1
    ELSE ComparePlaces(Tail(a), Tail(b))

\* Between texts of the same places the first difference of case decides, the
\* small letter first.
RECURSIVE CompareCases(_, _)
CompareCases(a, b) ==
    IF a = << >> THEN 0
    ELSE IF a[1] = b[1] THEN CompareCases(Tail(a), Tail(b))
    ELSE IF LowerChar(a[1]) = a[1] THEN -1 ELSE 1

\* a.localeCompare(b)
localeCompare(a, b) ==
    LET places == ComparePlaces(a, b)
    IN  IF places # 0 THEN places ELSE CompareCases(a, b)

Unknown == <<"U", "n", "k", "n", "o", "w", "n">>

\* getCardType(typeLine)
getCardType(typeLine) ==
    IF typeLine = << >> THEN Unknown
    ELSE LET dashes   == {i \in 1..Len(typeLine) : typeLine[i] = EmDash}
             first    == IF dashes = {} THEN Len(typeLine) + 1
                         ELSE CHOOSE i \in dashes : \A j \in dashes : i <= j
             mainType == trim(SubSeq(typeLine, 1, first - 1))
         IN  IF mainType = << >> THEN Unknown ELSE mainType

\* A comparator of the key alone, without the name.
CompareKeyOnly(a, b, key) ==
    CASE key = "name" -> localeCompare(a.name, b.name)
      [] key = "mana" -> getManaValue(a) - getManaValue(b)
      [] key = "type" -> localeCompare(getCardType(a.type), getCardType(b.type))

\* The comparator handed to sorted.sort for each sort key.
Compare(a, b, key) ==
    CASE key = "name" -> localeCompare(a.name, b.name)
      [] key = "mana" ->
            IF getManaValue(a) # getManaValue(b)
            THEN getManaValue(a) - getManaValue(b)
            ELSE localeCompare(a.name, b.name)
      [] key = "type" ->
            IF getCardType(a.type) # getCardType(b.type)
            THEN localeCompare(getCardType(a.type), getCardType(b.type))
            ELSE localeCompare(a.name, b.name)

\* Array.prototype.sort is stable: an entry goes behind those that compare
\* before it or equal to it.
Inserted(front, x, key) ==
    LET p == Cardinality({i \in 1..Len(front) : Compare(front[i], x, key) <= 0})
    IN  SubSeq(front, 1, p) \o << x >> \o SubSeq(front, p + 1, Len(front))
RECURSIVE sort(_, _)
sort(s, key) ==
    IF s = << >> THEN << >>
    ELSE Inserted(sort(SubSeq(s, 1, Len(s) - 1), key), s[Len(s)], key)

\* getSortedDecklist(), over a copy of the deck's decklist
getSortedDecklist(d, key) == sort(d.decklist, key)

\* Sort buttons that sort the deck's own decklist and save it.
SetSortBySorting ==
    /\ route = "detail" /\ IsSome(deck) /\ ~showStatsModal
    /\ \E k \in SortKeys :
          /\ sortBy' = k
          /\ saveDeck([Get(deck) EXCEPT !.decklist = sort(Get(deck).decklist, k)])
    /\ UNCHANGED <<clock, route, routeId, alert, listVars, taskVars,
                   showStatsModal, statsInput, notes>>

\* The three sort buttons.
SetSortBy ==
    /\ route = "detail" /\ IsSome(deck) /\ ~showStatsModal
    /\ \E k \in SortKeys : sortBy' = k
    /\ UNCHANGED <<storage, clock, route, routeId, alert, listVars, taskVars, deck,
                   showStatsModal, statsInput, notes>>

\* The page opened on "/": DeckList has rendered with its defaults, and its
\* effect runs. Nothing catches what JSON.parse throws there, and React takes
\* the views off the screen.
ListEffect ==
    /\ route = "to list"
    /\ IF HasBlob(storage) /\ ParseThrows(storage)
       THEN route' = "error" /\ UNCHANGED decks
       ELSE route' = "list" /\ decks' = LoadedDecks(storage)
    /\ UNCHANGED <<storage, clock, routeId, alert, showImportModal, formVars, importing,
                   taskVars, detailVars>>

\* The page opened on "/deck/:id": DeckDetail has rendered with its defaults,
\* and its effect runs.
DetailEffect ==
    /\ route = "to detail"
    /\ IF HasBlob(storage) /\ ParseThrows(storage)
       THEN route' = "error" /\ UNCHANGED detailVars
       ELSE route' = "detail" /\ DetailMounted(storage, routeId)
    /\ UNCHANGED <<storage, clock, routeId, alert, listVars, taskVars>>

\* ----------------------------------------------------------- specifications
\* What the user types into the import form and what the card service answers.
AllInputs ==
    [texts |-> ImportTexts, names |-> DeckNames, commanders |-> CommanderNames,
     exact |-> ExactRecords, search |-> SearchLists]
\* The same, cut down to one decklist of one line, found or not.
FewInputs ==
    [texts |-> {TextOne}, names |-> {<<"D", " ">>}, commanders |-> {<< >>},
     exact |-> {CardPlain}, search |-> {<< >>}]

NextList(in) ==
    \/ OpenImportModal \/ SetDecklistText(in) \/ SetDeckName(in) \/ SetCommanderName(in)
    \/ CancelImport \/ HandleImport \/ ExactResponse(in) \/ SearchResponse(in)
    \/ DelayElapsed \/ ImportThrows \/ HandleDeleteDeck \/ OpenDeck \/ BackToDecks

NextDetail ==
    \/ HandleQuickStatUpdate \/ OpenStatsModal \/ SetStatsInput \/ CancelStatsModal
    \/ HandleUpdateStats \/ SetNotes \/ NotesBlur \/ SetSortBy

\* The list view and its import: decks are imported, opened and deleted, not
\* edited.
SpecImport == Init /\ [][NextList(AllInputs)]_vars

\* The list view with decklists of no card, one line and two, and a commander
\* named or not; every request is answered in the end and every pacing delay
\* runs out.
LiveInputs ==
    [texts |-> {TextNoCards, TextOne, TextTwo}, names |-> {<<"D", " ">>},
     commanders |-> {<< >>, <<"A">>}, exact |-> ExactRecords, search |-> SearchLists]
SpecLive ==
    /\ Init /\ [][NextList(LiveInputs)]_vars
    /\ WF_vars(ExactResponse(LiveInputs))
    /\ WF_vars(SearchResponse(LiveInputs))
    /\ WF_vars(DelayElapsed)

\* The list view used with the keyboard as well as the pointer, with the
\* cut-down inputs.
NextKeys == NextList(FewInputs) \/ DeleteUnderForm
SpecKeys == Init /\ [][NextKeys]_vars

\* Both views from a browser with nothing stored, with the cut-down inputs and,
\* of the stat buttons, those of wins.
Next ==
    \/ NextList(FewInputs)
    \/ QuickStatUpdate("wins", 1) \/ QuickStatUpdate("wins", -1)
    \/ SetNotes \/ NotesBlur
Spec == Init /\ [][Next]_vars
\* Two decks as handleImport writes them: "1 a" with its card not found, after
\* one pacing delay, and "1 a / 2x a" with the first line found and taken as the
\* commander, two pacing delays later.
ImportedDecks ==
    LET one == parseDecklist(TextOne)
        two == parseDecklist(TextTwo)
    IN  << newDeck(1, <<"D", " ">>, << >>, one, << CardEntry(one[1], None) >>, None),
           newDeck(3, <<"D", " ">>, << >>, two,
                   << CardEntry(two[1], Some(CardPlain)), CardEntry(two[2], None) >>,
                   Some(CardPlain)) >>

\* The detail view just opened on a deck of a collection of freshly imported
\* decks.
InitDetail ==
    /\ \E n \in 1..Len(ImportedDecks) : storage = JSONstringify(SubSeq(ImportedDecks, 1, n))
    /\ clock = JSONparse(storage)[Len(JSONparse(storage))].id
    /\ route = "detail"
    /\ routeId \in {JSONparse(storage)[i].id : i \in 1..Len(JSONparse(storage))}
    /\ alert = "none"
    /\ ListInitial /\ TaskIdle
    /\ deck = FoundDeck(storage, routeId)
    /\ showStatsModal = FALSE
    /\ statsInput = [wins |-> 0, losses |-> 0, mulligans |-> 0]
    /\ notes = << >>
    /\ sortBy = "name"

\* The detail view and its handlers on a freshly imported deck.
SpecDetail == InitDetail /\ [][NextDetail]_vars

\* The characters of the decklists typed in full, and some longer decklists:
\* section headers, comments, and the three notations side by side.
ParseChars == {"1", "0", " ", "a", "x", "-", "#", "\n"}
ParseSamples ==
    { <<"1", " ", "C", "o", "m", "m", "a", "n", "d", "e", "r">>,
      <<"2", " ", "s", "i", "d", "e", "B", "O", "A", "R", "D", "\n", "2", "x", " ", "b">>,
      <<"/", "/", " ", "1", " ", "a">>,
      <<"/", "1", " ", "a", "\n", "1", " ", "/", "/">>,
      <<"1", "2", " ", "a", " ", "b", "\n", "3", "x", " ", "a", "\n", "1", " ", "-", " ", "c">>,
      <<"a", "\n", "\n", " ", "2", " ", "-", " ", "b", " ", "\n", "1", "x", "c">> }
ParseTexts == ParseSamples \cup UNION {[1..n -> ParseChars] : n \in 1..MaxLen}

\* The import form open, a deck name entered and a decklist typed or pasted.
InitParse ==
    /\ storage = NoBlob /\ clock = 0
    /\ route = "list" /\ routeId = 0 /\ alert = "none"
    /\ decks = << >> /\ showImportModal = TRUE
    /\ decklistText \in ParseTexts
    /\ deckName = <<"D">> /\ commanderName = << >> /\ importing = FALSE
    /\ TaskIdle /\ DetailInitial

\* The Import button on such a form: the decklist is parsed.
SpecParse == InitParse /\ [][HandleImport]_vars

\* The symbols of a mana cost, and the costs made of them.
ManaTokens ==
    { <<"{", "1", "}">>, <<"{", "3", "}">>, <<"{", "1", "0", "}">>,
      <<"{", "G", "}">>, <<"{", "R", "}">>, <<"{", "2", "/", "W", "}">> }
RECURSIVE Joined(_)
Joined(tokens) ==
    IF tokens = << >> THEN << >> ELSE tokens[1] \o Joined(SubSeq(tokens, 2, Len(tokens)))
ManaCosts == {Joined(ts) : ts \in UNION {[1..n -> ManaTokens] : n \in 0..MaxTokens}}

\* Card records of the service with any of these costs or none, with a cmc of
\* 0 or 2 or none, with one face or none.
ManaRecords ==
    {[image_uris_normal |-> Some("img"),
      card_faces        |-> faces,
      mana_cost         |-> cost,
      cmc               |-> cmc,
      type_line         |-> Some(<<"A">>),
      rarity            |-> Some("common")] :
        faces \in {<< >>, << [image_uris_normal |-> Some("face"), cmc |-> Some(2)] >>},
        cost \in {None} \cup {Some(c) : c \in ManaCosts},
        cmc \in {None, Some(0), Some(2)}}

\* The import of "1 a / 2x a" has just committed, the first line found as any
\* of these records (and taken as the commander), the second as CardPlain, and
\* the detail view has opened on the new deck.
InitMana ==
    /\ \E r \in ManaRecords :
          LET two     == parseDecklist(TextTwo)
              entries == << CardEntry(two[1], Some(r)), CardEntry(two[2], Some(CardPlain)) >>
          IN  /\ storage = JSONstringify(<< newDeck(2, <<"D">>, << >>, two, entries, Some(r)) >>)
              /\ parsedCards = two
              /\ decklist = entries
              /\ commanderData = Some(r)
    /\ clock = 2
    /\ route = "detail" /\ routeId = 2
    /\ alert = "none"
    /\ ListInitial
    /\ pc = "done" /\ phase = "line" /\ closureDecks = << >> /\ idx = 2
    /\ log = << Event("exact", 1, FALSE), Event("return", 1, TRUE), Event("delay", 1, FALSE),
                Event("exact", 2, FALSE), Event("return", 2, TRUE), Event("delay", 2, FALSE) >>
    /\ deck = FoundDeck(storage, routeId)
    /\ showStatsModal = FALSE
    /\ statsInput = [wins |-> 0, losses |-> 0, mulligans |-> 0]
    /\ notes = << >>
    /\ sortBy = "name"

\* The sort buttons on such a deck: sorted by mana, the two cards are compared
\* by their getManaValue.
SpecMana == InitMana /\ [][SetSortBy]_vars

\* Card names that differ in a letter, in case and in length, and what the
\* service answered for a line: nothing, CardPlain, CardFaces, or a card
\* without a cmc, of a cost of {2} and with a subtype behind the dash.
SortNames == {<<"a">>, <<"A">>, <<"b">>, <<"a", " ", "b">>}
CardDashed ==
    [image_uris_normal |-> Some("img"),
     card_faces        |-> << >>,
     mana_cost         |-> Some(<<"{", "2", "}">>),
     cmc               |-> None,
     type_line         |-> Some(<<"A", " ", EmDash, " ", "B">>),
     rarity            |-> Some("common")]
SortAnswers == {None, Some(CardPlain), Some(CardFaces), Some(CardDashed)}
SortEntries ==
    {CardEntry([name |-> n, quantity |-> 1], data) : n \in SortNames, data \in SortAnswers}

\* The detail view opened on a deck imported from up to MaxCards lines, a
\* name and an answer of the service for each; the commander is the first
\* line's name, with the first answer found for a line of that name.
InitSort ==
    /\ \E n \in 1..MaxCards : \E names \in [1..n -> SortNames], answers \in [1..n -> SortAnswers] :
          LET cards   == [i \in 1..n |-> [name |-> names[i], quantity |-> 1]]
              entries == [i \in 1..n |-> CardEntry(cards[i], answers[i])]
              hits    == {i \in 1..n : /\ IsSome(answers[i])
                                       /\ toLowerCase(names[i]) = toLowerCase(names[1])}
              cmdData == IF hits = {} THEN None
                         ELSE answers[CHOOSE i \in hits : \A j \in hits : i <= j]
          IN  /\ storage = JSONstringify(<< newDeck(n, <<"D">>, << >>, cards, entries, cmdData) >>)
              /\ clock = n /\ routeId = n
    /\ route = "detail"
    /\ alert = "none"
    /\ ListInitial /\ TaskIdle
    /\ deck = FoundDeck(storage, routeId)
    /\ showStatsModal = FALSE
    /\ statsInput = [wins |-> 0, losses |-> 0, mulligans |-> 0]
    /\ notes = << >>
    /\ sortBy = "name"

\* The sort buttons on such a deck.
SpecSort == InitSort /\ [][SetSortBy]_vars

\* What the browser may hold under 'mtgDecks' when the page is opened: nothing,
\* something that is not JSON, or a collection the app wrote.
LoadBlobs ==
    {NoBlob, Malformed} \cup {JSONstringify(SubSeq(ImportedDecks, 1, n)) : n \in 0..Len(ImportedDecks)}

\* The page opened on either route, the view's effect still to run.
InitLoad ==
    /\ storage \in LoadBlobs
    /\ clock = IF JSONparse(storage) = << >> THEN 0
               ELSE JSONparse(storage)[Len(JSONparse(storage))].id
    /\ \/ route = "to list" /\ routeId = 0
       \/ route = "to detail" /\ routeId \in 0..3
    /\ alert = "none"
    /\ ListInitial /\ TaskIdle /\ DetailInitial

NextLoad ==
    \/ ListEffect \/ DetailEffect
    \/ OpenDeck \/ BackToDecks \/ HandleDeleteDeck
    \/ QuickStatUpdate("wins", 1) \/ QuickStatUpdate("wins", -1)
    \/ SetNotes \/ NotesBlur

\* Opening the page on what the browser holds, and then browsing the decks.
SpecLoad == InitLoad /\ [][NextLoad]_vars

\* ------------------------------------------------------------------ claims
\* The decks of the blob, none without a blob.
Stored == IF storage.kind = "absent" THEN << >> ELSE storage.decks

Running == {"exact", "search", "delay"}

IsRequest(e) == e.ev = "exact" \/ e.ev = "search"

\* Nothing but white space, or nothing at all.
WhitespaceOnly(s) == \A i \in 1..Len(s) : s[i] \in {" ", "\t", "\n"}

\* C1: after every stat mutation (quick adjust or the form's overwrite) the
\* totalGames of every stored deck is its wins plus its losses.
C1_TotalGamesIsWinsPlusLosses ==
    \A i \in 1..Len(Stored) :
        Stored[i].stats.totalGames = Stored[i].stats.wins + Stored[i].stats.losses

C3_SequentialAndPaced ==
    /\ \A i \in 1..Len(log) :
          (log[i].ev = "exact" /\ log[i].line = 1) => i = 1
    /\ \A i \in 1..Len(log) :
          (log[i].ev = "exact" /\ log[i].line > 1) =>
              /\ i >= 3
              /\ log[i - 1] = Event("delay", log[i].line - 1, FALSE)
              /\ log[i - 2].ev = "return" /\ log[i - 2].line = log[i].line - 1
    /\ \A i \in 1..Len(log) :
          (log[i].ev = "return" /\ log[i].line > 0) =>
              IF i = Len(log) THEN pc = "delay"
              ELSE log[i + 1] = Event("delay", log[i].line, FALSE)
    /\ \A i \in 1..Len(log) :
          (log[i].ev = "search" \/ log[i].ev = "error") =>
              \E j \in 1..(i - 1) :
                  /\ log[j].ev = "exact" /\ log[j].line = log[i].line
                  /\ \A k \in (j + 1)..(i - 1) : log[k].ev = "search"

\* An import of two lines is over, the first line not found.
C3_Witness ==
    /\ pc = "done" /\ Len(parsedCards) = 2
    /\ \E i \in 1..Len(log) : log[i] = Event("return", 1, FALSE)
    /\ \E i \in 1..Len(log) : log[i] = Event("return", 2, TRUE)

\* C4: between any two successive requests of one import, the exact-name and
\* the search request for the same card included, a pacing delay elapses.
C4_DelayBetweenRequests ==
    \A i \in 1..Len(log) : \A j \in (i + 1)..Len(log) :
        (IsRequest(log[i]) /\ IsRequest(log[j])) =>
            \E k \in (i + 1)..(j - 1) : log[k].ev = "delay"

\* C5: a lookup that finds nothing, or whose request throws, returns the absent
\* result and the import goes on; the entry of such a line, in the decklist
\* under assembly and in the deck committed, has no image, no mana cost, no
\* cmc, no type and no rarity.
C5_MissNeverAborts ==
    /\ \A i \in 1..Len(log) :
          log[i].ev = "error" =>
              /\ i < Len(log)
              /\ log[i + 1] = Event("return", log[i].line, FALSE)
    /\ \A i \in 1..Len(log) :
          (log[i].ev = "return" /\ log[i].line > 0 /\ ~log[i].found) =>
              LET k == log[i].line
                  empty == [name |-> parsedCards[k].name,
                            quantity |-> parsedCards[k].quantity,
                            imageUrl |-> << >>, manaCost |-> << >>, cmc |-> << >>,
                            type |-> << >>, rarity |-> ""]
              IN  /\ Len(decklist) >= k /\ decklist[k] = empty
                  /\ pc \in Running \cup {"done"}
                  /\ pc = "done" =>
                        /\ Stored[Len(Stored)].decklist[k] = empty
                        /\ deck # << >> /\ deck[1].decklist[k] = empty

\* A deck of two lines is committed, the request for the first line having
\* thrown and the second line found by neither request.
C5_Witness ==
    /\ pc = "done" /\ Len(parsedCards) = 2
    /\ \E i \in 1..Len(log) : log[i] = Event("error", 1, FALSE)
    /\ \E i \in 1..(Len(log) - 1) :
          log[i] = Event("search", 2, FALSE) /\ log[i + 1] = Event("return", 2, FALSE)
    /\ Len(Stored[Len(Stored)].decklist) = 2

\* C6: the decklist committed by an import has one entry per parsed line of the
\* text, in parse order, with the line's name and quantity; lines of the same
\* name stay apart.
C6_OneEntryPerLine ==
    [][(pc # "done" /\ pc' = "done") =>
          LET lines   == parseDecklist(decklistText)
              entries == Stored'[Len(Stored')].decklist
          IN  /\ Len(entries) = Len(lines)
              /\ \A k \in 1..Len(lines) :
                    /\ entries[k].name = lines[k].name
                    /\ entries[k].quantity = lines[k].quantity]_vars

\* A committed deck holds two entries of the same name.
C6_Witness ==
    /\ pc = "done" /\ Len(Stored) > 0
    /\ LET entries == Stored[Len(Stored)].decklist
       IN  /\ Len(entries) = 2
           /\ entries[1].name = entries[2].name
           /\ entries[1].quantity = 1 /\ entries[2].quantity = 2

\* C7: an import asked for with a blank deck name, a blank text, or a text
\* without a card line sends no request, creates no deck and leaves the blob as
\* it is.
C7_InvalidImportRejected ==
    [][(/\ HandleImport
        /\ \/ WhitespaceOnly(deckName)
           \/ WhitespaceOnly(decklistText)
           \/ parseDecklist(decklistText) = << >>)
       => /\ log' = log /\ pc' = pc /\ ~importing'
          /\ storage' = storage /\ decks' = decks /\ deck' = deck]_vars

\* An import with a blank deck name has been refused while a deck is stored.
C7_Witness ==
    /\ alert = "Please enter a deck name"
    /\ WhitespaceOnly(deckName) /\ ~WhitespaceOnly(decklistText)
    /\ Len(Stored) = 1 /\ pc = "idle" /\ log = << >>

\* C8: after every stat mutation no stat of a stored deck is below 0.
C8_StatsNeverNegative ==
    \A i \in 1..Len(Stored) :
        /\ Stored[i].stats.wins >= 0 /\ Stored[i].stats.losses >= 0
        /\ Stored[i].stats.mulligans >= 0 /\ Stored[i].stats.totalGames >= 0

\* C9: the - button of wins or of losses, pressed while that stat is 0, leaves
\* every stat of the deck as it is.
C9_DecrementAtZeroChangesNothing ==
    [][\A stat \in {"wins", "losses"} :
          (/\ QuickStatUpdate(stat, -1)
           /\ deck # << >> /\ deck[1].stats[stat] = 0)
          => /\ deck'[1].stats = deck[1].stats
             /\ Stored' = Stored]_vars

C11_DistinctIds ==
    \A i \in 1..Len(Stored) : \A j \in 1..Len(Stored) :
        Stored[i].id = Stored[j].id => i = j

\* Two decks are stored, the first of them updated after its import.
C11_Witness ==
    /\ Len(Stored) = 2
    /\ Stored[1].notes = <<"n">>
    /\ Stored[1].id < Stored[2].id

\* C12: an import with a commander name that is not blank and is the name of
\* no parsed line, whatever the letter case, makes one standalone lookup for
\* it, after the pacing delay of the last line and before the commit.
C12_OneExtraCommanderLookup ==
    [][(/\ pc # "done" /\ pc' = "done"
        /\ ~WhitespaceOnly(commanderName)
        /\ \A k \in 1..Len(parsedCards) :
              toLowerCase(parsedCards[k].name) # toLowerCase(trim(commanderName)))
       => LET sent == {i \in 1..Len(log') : log'[i].ev = "exact" /\ log'[i].line = 0}
          IN  /\ Cardinality(sent) = 1
              /\ \A i \in sent :
                    /\ i > 1
                    /\ log'[i - 1] = Event("delay", Len(parsedCards), FALSE)
                    /\ \A j \in 1..Len(log') : log'[j].line > 0 => j < i
                    /\ log'[Len(log')].ev = "return" /\ log'[Len(log')].line = 0]_vars

\* A deck is committed after a standalone lookup for the commander "c", the
\* name of none of its two lines.
C12_Witness ==
    /\ pc = "done" /\ Len(parsedCards) = 2
    /\ \E i \in 1..Len(log) : log[i] = Event("exact", 0, FALSE)
    /\ deck # << >> /\ deck[1].commander # << >>
    /\ deck[1].commander[1].name = <<"c">>

\* The commander target of the import under way: the commander field without
\* the white space around it, or for a blank field the first parsed line's name.
Target ==
    IF ~WhitespaceOnly(commanderName) THEN trim(commanderName) ELSE parsedCards[1].name

\* C13: the result of a line's lookup becomes the commander data only when the
\* line's name is the target's, whatever the letter case, and no commander
\* data is held yet; a line of that kind does take its result; and the
\* commander of a committed deck, when it has one, bears the target's name.
C13_CommanderTarget ==
    [][/\ (pc \in {"exact", "search"} /\ phase = "line" /\ pc' = "delay") =>
            LET matches == /\ toLowerCase(parsedCards[idx].name) = toLowerCase(Target)
                           /\ commanderData = << >>
            IN  /\ commanderData' # commanderData => matches
                /\ matches => (commanderData' # << >>) = log'[Len(log')].found
       /\ (pc # "done" /\ pc' = "done") =>
            LET committed == Stored'[Len(Stored')]
            IN  committed.commander # << >> => committed.commander[1].name = Target]_vars

\* A deck is committed whose commander "A" took the result of the line "a",
\* with no standalone lookup.
C13_Witness ==
    /\ pc = "done" /\ deck # << >> /\ deck[1].commander # << >>
    /\ deck[1].commander[1].name = <<"A">>
    /\ deck[1].commander[1].imageUrl # << >>
    /\ \A i \in 1..Len(log) : log[i].line > 0

\* C14: the commander of a committed deck is there exactly when some lookup
\* for the target (of a line of that name, or the standalone one) returned a
\* card or the commander field was not blank; with a name given and every
\* such lookup a miss, it is that name with no image.
C14_CommanderPresence ==
    [][(pc # "done" /\ pc' = "done") =>
          LET committed == Stored'[Len(Stored')]
              explicit  == ~WhitespaceOnly(commanderName)
              got == \E i \in 1..Len(log') :
                        /\ log'[i].ev = "return" /\ log'[i].found
                        /\ \/ log'[i].line = 0
                           \/ /\ log'[i].line > 0
                              /\ toLowerCase(parsedCards[log'[i].line].name) = toLowerCase(Target)
          IN  /\ (committed.commander # << >>) = (got \/ explicit)
              /\ (explicit /\ ~got) =>
                    committed.commander = << [name |-> trim(commanderName), imageUrl |-> << >>] >>]_vars

\* A deck is committed with the commander "c" and no image, its standalone
\* lookup having found nothing.
C14_Witness ==
    /\ pc = "done" /\ deck # << >>
    /\ deck[1].commander = << [name |-> <<"c">>, imageUrl |-> << >>] >>
    /\ \E i \in 1..Len(log) : log[i] = Event("return", 0, FALSE)

\* C15: a lookup sends the exact-name request first and the search request
\* only on a response to it that is not OK, and nothing after either answer;
\* its result is the record of an OK exact response, the first result of an OK
\* search response with results, and absent in every other case.
C15_LookupProtocol ==
    [][LET ret    == log'[Len(log')]
           err    == Event("error", LookupLine, FALSE)
           gives(result) ==
               IF phase = "line"
               THEN decklist' = Append(decklist, CardEntry(parsedCards[idx], result))
               ELSE commanderData' = result
           answered == pc' \in {"delay", "done"}
       IN  /\ pc' = "search" =>
                 /\ pc = "exact"
                 /\ log' = Append(log, Event("search", LookupLine, FALSE))
           /\ (pc \in {"exact", "search"} /\ pc' = "exact") => log' = log
           /\ (pc \in {"exact", "search"} /\ answered) =>
                 /\ ret.ev = "return" /\ ret.line = LookupLine
                 /\ log' = Append(log, ret) \/ log' = log \o << err, ret >>
                 /\ ret.found => log' = Append(log, ret)
                 /\ ~ret.found => gives(<< >>)
           /\ (pc = "exact" /\ answered /\ ret.found) =>
                 \E r \in ExactRecords : gives(<< r >>)
           /\ (pc = "search" /\ answered /\ ret.found) =>
                 \E data \in SearchLists : Len(data) > 0 /\ gives(<< data[1] >>)]_vars

\* A deck is committed whose first line took the first result of the search.
C15_Witness ==
    /\ pc = "done" /\ deck # << >>
    /\ \E i \in 1..(Len(log) - 2) :
          /\ log[i] = Event("exact", 1, FALSE)
          /\ log[i + 1] = Event("search", 1, FALSE)
          /\ log[i + 2] = Event("return", 1, TRUE)
    /\ deck[1].decklist[1] = CardEntry(parsedCards[1], << CardFaces >>)

\* The Import button has been pressed on a decklist that is not blank.
Parsed == pc = "exact" \/ alert = "No valid cards found in decklist"

\* The number of digits a line begins with.
LeadingDigits(l) ==
    Cardinality({n \in 1..Len(l) : \A i \in 1..n : l[i] \in {"0", "1", "2", "3", "4", "5", "6", "7", "8", "9"}})

\* A line that yields an entry: not a comment, not a section header, and an
\* integer above 0 at its beginning with a card name after it.
Qualifies(l) ==
    /\ ~startsWith(l, <<"/", "/">>) /\ ~startsWith(l, <<"#">>)
    /\ ~includes(toLowerCase(l), WordCommander)
    /\ ~includes(toLowerCase(l), WordSideboard)
    /\ LeadingDigits(l) > 0
    /\ parseInt(SubSeq(l, 1, LeadingDigits(l))) > 0
    /\ ~WhitespaceOnly(SubSeq(l, LeadingDigits(l) + 1, Len(l)))

\* C16: parseDecklist gives one entry, in the order of the text, for exactly
\* the lines that, trimmed, are no comment and no section header and begin
\* with an integer above 0 that a card name follows; the entry has that
\* integer as its quantity and a name that is not empty; a text without such
\* a line gives no entry.
C16_ParsedLines ==
    Parsed =>
        LET trimmed   == [i \in 1..Len(split(decklistText)) |-> trim(split(decklistText)[i])]
            qualified == SelectSeq(trimmed, Qualifies)
        IN  /\ Len(parsedCards) = Len(qualified)
            /\ \A k \in 1..Len(parsedCards) :
                  /\ parsedCards[k].quantity > 0
                  /\ parsedCards[k].name # << >>
                  /\ parsedCards[k].quantity =
                        parseInt(SubSeq(qualified[k], 1, LeadingDigits(qualified[k])))

\* C17: a text made of a positive integer N, one of the separators " ", "x "
\* and " - ", and a card name (one line, trimmed, not empty, without
\* "commander" and "sideboard") is parsed to the one entry with that name,
\* whole and unaltered, and the quantity N.
C17_ThreeNotations ==
    Parsed =>
        \A d \in 1..Len(decklistText) :
            \A sep \in {<<" ">>, <<"x", " ">>, <<" ", "-", " ">>} :
                LET digits == SubSeq(decklistText, 1, d)
                    name   == SubSeq(decklistText, d + Len(sep) + 1, Len(decklistText))
                IN  (/\ d + Len(sep) < Len(decklistText)
                     /\ \A i \in 1..d : digits[i] \in {"0", "1", "2", "3", "4", "5", "6", "7", "8", "9"}
                     /\ parseInt(digits) > 0
                     /\ SubSeq(decklistText, d + 1, d + Len(sep)) = sep
                     /\ Len(name) > 0
                     /\ name[1] # " " /\ name[Len(name)] # " "
                     /\ \A i \in 1..Len(name) : name[i] \notin {"\n", "\t"}
                     /\ ~includes(toLowerCase(name), WordCommander)
                     /\ ~includes(toLowerCase(name), WordSideboard))
                    => parsedCards = << [name |-> name, quantity |-> parseInt(digits)] >>

\* The cards the detail view shows sorted by mana value.
SortedByMana == IF sortBy = "mana" /\ deck # << >> THEN deck[1].decklist ELSE << >>

\* Where the symbols of a cost begin, and what stands between the braces of
\* the symbol that begins at i.
SymbolStarts(cost) == {i \in 1..Len(cost) : cost[i] = "{"}
SymbolAt(cost, i) ==
    LET ends == {j \in (i + 1)..Len(cost) : cost[j] = "}"}
        j    == CHOOSE e \in ends : \A f \in ends : e <= f
    IN  SubSeq(cost, i + 1, j - 1)
IsNumber(t) ==
    /\ Len(t) > 0
    /\ \A k \in 1..Len(t) : t[k] \in {"0", "1", "2", "3", "4", "5", "6", "7", "8", "9"}
IsColour(t) == t \in {<<"W">>, <<"U">>, <<"B">>, <<"R">>, <<"G">>}

\* The numbers of the symbols that begin at starts, added up, each coloured
\* symbol counted as pip.
RECURSIVE SymbolSum(_, _, _)
SymbolSum(cost, starts, pip) ==
    IF starts = {} THEN 0
    ELSE LET i == CHOOSE j \in starts : TRUE
             t == SymbolAt(cost, i)
         IN  (IF IsNumber(t) THEN parseInt(t) ELSE IF IsColour(t) THEN pip ELSE 0)
             + SymbolSum(cost, starts \ {i}, pip)

\* C18: for a card without a stored cmc whose cost is made of numbers and
\* coloured symbols, the mana value is the numbers plus one for each coloured
\* symbol: 5 for {3}{G}{G}, 2 for {1}{R}.
C18_ManaValueCountsColours ==
    \A k \in 1..Len(SortedByMana) :
        LET card == SortedByMana[k]
        IN  (/\ card.cmc = << >>
             /\ \A i \in SymbolStarts(card.manaCost) :
                   IsNumber(SymbolAt(card.manaCost, i)) \/ IsColour(SymbolAt(card.manaCost, i)))
            => getManaValue(card) = SymbolSum(card.manaCost, SymbolStarts(card.manaCost), 1)

C20_StoredCmcWins ==
    \A k \in 1..Len(SortedByMana) :
        LET card == SortedByMana[k]
        IN  /\ card.cmc # << >> => getManaValue(card) = card.cmc[1]
            /\ card.cmc = << >> =>
                  getManaValue(card) = SymbolSum(card.manaCost, SymbolStarts(card.manaCost), 0)
            /\ (k = 1 /\ pc = "done" /\ commanderData # << >> /\ commanderData[1].cmc = << 0 >>)
                  => card.cmc = << 0 >>

\* Sorted by mana, a card imported from a record with the cmc 0, a face of
\* cmc 2 and the cost {3} has the value 0.
C20_Witness ==
    /\ Len(SortedByMana) = 2
    /\ SortedByMana[1].cmc = << 0 >>
    /\ SortedByMana[1].manaCost = <<"{", "3", "}">>
    /\ getManaValue(SortedByMana[1]) = 0
    /\ pc = "done" /\ commanderData # << >>
    /\ commanderData[1].cmc = << 0 >> /\ Len(commanderData[1].card_faces) = 1

\* C21: a save from the detail view leaves the blob's length and order, and
\* every deck of another id than the route's, as they were; and the replace
\* for an id that no stored deck has gives the decks as they are.
C21_ReplaceOnlyMatching ==
    [][/\ Len(Stored') = Len(Stored)
       /\ \A i \in 1..Len(Stored) :
             /\ Stored'[i].id = Stored[i].id
             /\ Stored[i].id # routeId => Stored'[i] = Stored[i]
       /\ \A id \in 0..(MaxClock + 2) :
             (deck # << >> /\ \A i \in 1..Len(Stored) : Stored[i].id # id)
             => ReplacedDecks(Stored, id, deck[1]) = Stored]_vars

\* Of two stored decks the second, on screen, has a win and a note saved; the
\* first is as it was imported.
C21_Witness ==
    /\ Len(Stored) = 2 /\ routeId = Stored[2].id
    /\ Stored[2].stats.wins = 1 /\ Stored[2].notes = <<"n">>
    /\ Stored[1] = ImportedDecks[1]

\* C22: with the blob absent or malformed, a view that has loaded shows the
\* empty collection (an empty list, or "deck not found") and nothing was thrown.
C22_LoadTreatsBadBlobAsEmpty ==
    storage.kind \in {"absent", "malformed"} =>
        \/ route \in {"to list", "to detail"}
        \/ route = "list" /\ decks = << >>
        \/ route = "detail" /\ deck = None

\* The key an entry is sorted by, and the order of two keys.
KeyBefore(a, b, key) ==
    IF key = "mana" THEN getManaValue(a) < getManaValue(b)
    ELSE localeCompare(getCardType(a.type), getCardType(b.type)) < 0
KeySame(a, b, key) ==
    IF key = "mana" THEN getManaValue(a) = getManaValue(b)
    ELSE getCardType(a.type) = getCardType(b.type)

\* C23: for the deck on screen and the sort key chosen, sorting the sorted
\* decklist again gives the same sequence; by mana and by type the result is
\* in the order of the key and, within one key, of the names, and the
\* comparator gives 0 for two entries only when their names are the same.
C23_SortIdempotentAndOrdered ==
    (route = "detail" /\ IsSome(deck)) =>
        \A s \in {getSortedDecklist(Get(deck), sortBy)} :
            /\ getSortedDecklist([Get(deck) EXCEPT !.decklist = s], sortBy) = s
            /\ sortBy \in {"mana", "type"} =>
                  /\ \A i, j \in 1..Len(s) : i < j =>
                        \/ KeyBefore(s[i], s[j], sortBy)
                        \/ /\ KeySame(s[i], s[j], sortBy)
                           /\ localeCompare(s[i].name, s[j].name) <= 0
                  /\ \A i, j \in 1..Len(s) :
                        Compare(s[i], s[j], sortBy) = 0 => s[i].name = s[j].name

\* Sorted by type, a deck stored as "b" (no type known), "A" and "a" (both of
\* type A) shows "a", "A", "b".
C23_Witness ==
    /\ route = "detail" /\ IsSome(deck) /\ sortBy = "type"
    /\ Len(Get(deck).decklist) = 3
    /\ Get(deck).decklist[1].name = <<"b">> /\ Get(deck).decklist[1].type = << >>
    /\ Get(deck).decklist[2].name = <<"A">> /\ Get(deck).decklist[3].name = <<"a">>
    /\ getCardType(Get(deck).decklist[2].type) = getCardType(Get(deck).decklist[3].type)
    /\ getSortedDecklist(Get(deck), sortBy)
         = << Get(deck).decklist[3], Get(deck).decklist[2], Get(deck).decklist[1] >>

\* C24: whatever is done in the detail view (a sort key chosen, a stat
\* adjusted, the form or the notes saved), every stored deck, and the deck on
\* screen, keeps the id and the decklist, in content and order, that it had,
\* and so those the import wrote.
C24_IdAndDecklistKept ==
    [][/\ Len(Stored') = Len(Stored)
       /\ \A i \in 1..Len(Stored) :
             /\ Stored'[i].id = Stored[i].id
             /\ Stored'[i].decklist = Stored[i].decklist
       /\ IsSome(deck) =>
             /\ IsSome(deck')
             /\ Get(deck').id = Get(deck).id
             /\ Get(deck').decklist = Get(deck).decklist]_vars

\* The second deck is shown sorted by mana, in another order than stored,
\* after a quick adjust of mulligans, a save of the form with one win and a
\* save of the notes.
C24_Witness ==
    /\ Len(Stored) = 2 /\ routeId = Stored[2].id /\ IsSome(deck)
    /\ sortBy = "mana"
    /\ getSortedDecklist(Get(deck), sortBy) # Get(deck).decklist
    /\ Stored[2].stats.mulligans = 1 /\ statsInput.mulligans = 0
    /\ Stored[2].stats.wins = 1 /\ statsInput.wins = 1
    /\ Stored[2].notes = <<"n">>

\* C25: a press of + or - on mulligans moves the mulligans of the deck on
\* screen by one, not below 0, and leaves its wins, losses and totalGames, in
\* the view and in the blob, as they were.
C25_MulligansOnly ==
    [][(\E delta \in {1, -1} : QuickStatUpdate("mulligans", delta)) =>
          \A i \in 1..Len(Stored) :
             /\ Stored'[i].stats.wins = Stored[i].stats.wins
             /\ Stored'[i].stats.losses = Stored[i].stats.losses
             /\ Stored'[i].stats.totalGames = Stored[i].stats.totalGames
             /\ Stored[i].id = routeId =>
                   /\ Stored'[i].stats.mulligans \in
                         {Stored[i].stats.mulligans + 1, Max(0, Stored[i].stats.mulligans - 1)}
                   /\ Get(deck').stats = Stored'[i].stats]_vars

\* A deck with a win and a loss counted whose mulligans were raised by their
\* button, the form untouched.
C25_Witness ==
    /\ IsSome(deck) /\ statsInput = [wins |-> 0, losses |-> 0, mulligans |-> 0]
    /\ Get(deck).stats = [wins |-> 1, losses |-> 1, mulligans |-> 1, totalGames |-> 2]
    /\ \E i \in 1..Len(Stored) : Stored[i].id = routeId /\ Stored[i].stats = Get(deck).stats

\* C26: an import that is running ends, with the deck committed or with the
\* failure alert, and the importing flag is false again.  (The import of a
\* decklist without cards ends within the Import button's own step.)
C26_ImportEnds ==
    importing ~> (~importing /\ pc \in {"done", "failed"})

\* An import of two lines with a commander named has committed after its
\* standalone lookup, and the flag is down.
C26_Witness ==
    /\ pc = "done" /\ ~importing /\ phase = "commander"
    /\ Len(decklist) = 2 /\ Len(Stored) = 1 /\ Stored[1].decklist = decklist

\* C27: a Save of the edit form whose fields are as the load of the view set
\* them (here all 0: the decks are freshly imported) leaves the stats of every
\* stored deck as they were, whatever the + and - buttons did before.
C27_UntouchedFormKeepsStats ==
    [][(HandleUpdateStats /\ statsInput = [wins |-> 0, losses |-> 0, mulligans |-> 0]) =>
          \A i \in 1..Len(Stored) : Stored'[i].stats = Stored[i].stats]_vars

\* The calls of the lookup client a log shows: each begins with its exact-name
\* request.
Calls(lg) == Cardinality({i \in DOMAIN lg : lg[i].ev = "exact"})

\* C28: when an import commits, the lookup client was called once for each
\* parsed line, and once more exactly when a commander name was entered and
\* no parsed line has that name; with a line of that name there was no
\* standalone lookup, whatever the line's lookup returned.
C28_CallsAreLinesPlusUnmatchedCommander ==
    [][(pc # "done" /\ pc' = "done") =>
          LET named   == ~IsBlank(commanderName)
              matched == \E i \in 1..Len(parsedCards) :
                            toLowerCase(parsedCards[i].name) = toLowerCase(trim(commanderName))
          IN  /\ Calls(log') = Len(parsedCards) + (IF named /\ ~matched THEN 1 ELSE 0)
              /\ (named /\ matched) => \A i \in DOMAIN log' : log'[i].line # 0]_vars

\* C29: while an import is between its start and its end the importing flag
\* is up and the decks the import will append to are the decks of the view and
\* of the blob: nothing has changed them since the import took them.
C29_SnapshotIsCurrent ==
    pc \in Running =>
        /\ importing
        /\ closureDecks = decks
        /\ closureDecks = Stored

\* C30: a Delete of the i-th deck of the grid, the confirmation accepted,
\* leaves in the blob and in the view the decks as they were without the
\* i-th, none of them with its id; the confirmation declined, blob and view
\* are as they were.
C30_DeleteRemovesOne ==
    [][\A i \in 1..Len(decks), confirmed \in BOOLEAN :
          (route = "list" /\ ~showImportModal /\ HandleDeleteDeckOf(decks[i].id, confirmed)) =>
             IF confirmed
             THEN /\ Stored' = [j \in 1..(Len(Stored) - 1) |->
                                   IF j < i THEN Stored[j] ELSE Stored[j + 1]]
                  /\ decks' = Stored'
                  /\ \A j \in 1..Len(Stored') : Stored'[j].id # decks[i].id
             ELSE Stored' = Stored /\ decks' = decks]_vars

\* Of two decks imported one after the other the first was deleted: the list
\* shows the second alone.
C30_Witness ==
    /\ route = "list" /\ clock = 2
    /\ Len(Stored) = 1 /\ Stored[1].id = 2 /\ decks = Stored

====
